---- MODULE Spec2Model ----
(***************************************************************************)
(* A model of frogy.py: the Frogy object (self.all_domains), the files it  *)
(* keeps under output/<org>/ and in the working directory, and the stages  *)
(* of Frogy.run().  Strings are real strings: lower(), strip() and         *)
(* rstrip('.') are computed character by character, as Python does.        *)
(***************************************************************************)
EXTENDS Integers, Sequences, FiniteSets, TLC

(***************************************************************************)
(* Bounds of the model.                                                    *)
(***************************************************************************)
\* lines the external tools and services together emit in one run()
MaxInput == 1
\* how many times frogy is started in the same working directory
MaxRuns == 2

\* main(): the positional argument `domain`
Domain == "ex.co"

(***************************************************************************)
(* Python string methods, on the characters the model uses.                *)
(***************************************************************************)
IsSpace(c) == c = " "

Lowered ==
    [c \in {"A", "B", "C", "D", "E", "F", "G", "H", "I", "J", "K", "L", "M", "N", "O",
            "P", "Q", "R", "S", "T", "U", "V", "W", "X", "Y", "Z"} |->
        CASE c = "A" -> "a" [] c = "B" -> "b" [] c = "C" -> "c" [] c = "D" -> "d"
          [] c = "E" -> "e" [] c = "F" -> "f" [] c = "G" -> "g" [] c = "H" -> "h"
          [] c = "I" -> "i" [] c = "J" -> "j" [] c = "K" -> "k" [] c = "L" -> "l"
          [] c = "M" -> "m" [] c = "N" -> "n" [] c = "O" -> "o" [] c = "P" -> "p"
          [] c = "Q" -> "q" [] c = "R" -> "r" [] c = "S" -> "s" [] c = "T" -> "t"
          [] c = "U" -> "u" [] c = "V" -> "v" [] c = "W" -> "w" [] c = "X" -> "x"
          [] c = "Y" -> "y" [] OTHER -> "z"]

LowerChar(c) == IF c \in DOMAIN Lowered THEN Lowered[c] ELSE c

CharAt(s, i) == SubSeq(s, i, i)

\* str.lower()
RECURSIVE lower(_)
lower(s) ==
    IF Len(s) = 0 THEN ""
    ELSE LowerChar(CharAt(s, 1)) \o lower(SubSeq(s, 2, Len(s)))

\* str.lstrip() / str.rstrip() / str.strip()
RECURSIVE lstrip(_)
lstrip(s) ==
    IF Len(s) > 0 /\ IsSpace(CharAt(s, 1)) THEN lstrip(SubSeq(s, 2, Len(s))) ELSE s

RECURSIVE rstrip(_)
rstrip(s) ==
    IF Len(s) > 0 /\ IsSpace(CharAt(s, Len(s))) THEN rstrip(SubSeq(s, 1, Len(s) - 1)) ELSE s

strip(s) == lstrip(rstrip(s))

\* str.rstrip('.'): every trailing dot goes
RECURSIVE rstrip_dot(_)
rstrip_dot(s) ==
    IF Len(s) > 0 /\ CharAt(s, Len(s)) = "." THEN rstrip_dot(SubSeq(s, 1, Len(s) - 1)) ELSE s

\* c in s, for a single character c
HasChar(s, c) == \E i \in 1..Len(s) : CharAt(s, i) = c

\* s.startswith(p)
startswith(s, p) == Len(s) >= Len(p) /\ SubSeq(s, 1, Len(p)) = p

\* the text after the last occurrence of character c (the whole of s without one)
AfterLast(s, c) ==
    IF ~HasChar(s, c) THEN s
    ELSE LET i == CHOOSE k \in 1..Len(s) : CharAt(s, k) = c /\ \A j \in (k+1)..Len(s) : CharAt(s, j) # c
         IN  SubSeq(s, i + 1, Len(s))

(***************************************************************************)
(* Sequence helpers.                                                       *)
(***************************************************************************)
Range(seq) == {seq[i] : i \in 1..Len(seq)}

RECURSIVE SeqFilter(_, _)
\* [x for x in seq if x in keep]
SeqFilter(seq, keep) ==
    IF seq = <<>> THEN <<>>
    ELSE (IF Head(seq) \in keep THEN <<Head(seq)>> ELSE <<>>) \o SeqFilter(Tail(seq), keep)

\* every sequence over S of length at most n
SeqsUpTo(S, n) == UNION {[1..k -> S] : k \in 0..n}

(***************************************************************************)
(* Module-level helpers of frogy.py.                                       *)
(***************************************************************************)
\* the key run_anew and unique_lines compare by: line.lower().strip()
lower_strip(line) == strip(lower(line))

\* the key build_results_table joins by: lower().strip().rstrip('.')
domain_normalized(domain) == rstrip_dot(strip(lower(domain)))

\* read_file_lines: the stripped non-empty lines of a file
RECURSIVE read_file_lines(_)
read_file_lines(content) ==
    IF content = <<>> THEN <<>>
    ELSE (IF strip(Head(content)) # "" THEN <<strip(Head(content))>> ELSE <<>>)
         \o read_file_lines(Tail(content))

\* the loop of unique_lines, with `seen` and `result` as it goes
RECURSIVE unique_loop(_, _, _)
unique_loop(lines, seen, result) ==
    IF lines = <<>> THEN result
    ELSE LET line == Head(lines)
             line_lower == lower_strip(line)
         IN  IF line_lower # "" /\ line_lower \notin seen
             THEN unique_loop(Tail(lines), seen \cup {line_lower}, Append(result, line))
             ELSE unique_loop(Tail(lines), seen, result)

unique_lines(lines) == unique_loop(lines, {}, <<>>)

\* [line.strip() for line in stdout.split('\n') if line.strip()]
stdout_lines(stdout) == read_file_lines(stdout)

(***************************************************************************)
(* The two helper tools run over stdin.  `unfurl domains` prints the host  *)
(* of each line read as a URL (http:// is assumed when no scheme is        *)
(* given): the userinfo before '@' is dropped, a line with a space does    *)
(* not parse and prints nothing.  `anew` without a file prints each stdin  *)
(* line it has not yet seen, compared exactly.                             *)
(***************************************************************************)
RECURSIVE unfurl_stdout(_)
unfurl_stdout(input_lines) ==
    IF input_lines = <<>> THEN <<>>
    ELSE LET line == Head(input_lines)
             host == AfterLast(line, "@")
         IN  (IF HasChar(line, " ") \/ host = "" THEN <<>> ELSE <<host>>)
             \o unfurl_stdout(Tail(input_lines))

RECURSIVE anew_loop(_, _)
anew_loop(stdin, seen) ==
    IF stdin = <<>> THEN <<>>
    ELSE IF Head(stdin) \in seen THEN anew_loop(Tail(stdin), seen)
         ELSE <<Head(stdin)>> \o anew_loop(Tail(stdin), seen \cup {Head(stdin)})

anew_stdout(stdin) == anew_loop(stdin, {})

\* how a helper tool's invocation goes: check_tool finds it not installed
\* ("absent"), it runs ("ok"), or it raises ("raise": communicate() timing
\* out after 30 s, the spawn failing).  check_tool looks PATH up at every call.
ToolPaths == {"absent", "ok", "raise"}

\* run_unfurl_domains(input_lines)
run_unfurl_domains(input_lines, unfurl) ==
    CASE unfurl = "absent" -> input_lines
      [] unfurl = "ok"     -> stdout_lines(unfurl_stdout(input_lines))
      [] OTHER             -> input_lines

\* run_anew(new_lines, existing_lines)
run_anew(new_lines, existing_lines, anew) ==
    CASE anew = "absent" ->
             LET existing_set == {lower_strip(line) : line \in Range(existing_lines)}
             IN  SeqFilter(new_lines,
                           {line \in Range(new_lines) : lower_strip(line) \notin existing_set})
      [] anew = "ok"     -> stdout_lines(anew_stdout(existing_lines \o new_lines))
      [] OTHER           -> unique_lines(existing_lines \o new_lines)

(***************************************************************************)
(* More string helpers used by the adapters.                               *)
(***************************************************************************)
\* s.split(c) for a single character c
RECURSIVE split(_, _)
split(s, c) ==
    IF ~HasChar(s, c) THEN <<s>>
    ELSE LET i == CHOOSE k \in 1..Len(s) : CharAt(s, k) = c /\ \A j \in 1..(k-1) : CharAt(s, j) # c
         IN  <<SubSeq(s, 1, i - 1)>> \o split(SubSeq(s, i + 1, Len(s)), c)

\* s.replace('*.', '')
RECURSIVE replace_wildcard(_)
replace_wildcard(s) ==
    IF Len(s) = 0 THEN ""
    ELSE IF startswith(s, "*.") THEN replace_wildcard(SubSeq(s, 3, Len(s)))
         ELSE CharAt(s, 1) \o replace_wildcard(SubSeq(s, 2, Len(s)))

\* sub in s
contains(s, sub) == \E i \in 1..(Len(s) - Len(sub) + 1) : SubSeq(s, i, i + Len(sub) - 1) = sub

(***************************************************************************)
(* Exceptions: which `except` clause catches which exception.              *)
(* `except Exception` catches every exception but KeyboardInterrupt, a     *)
(* bare `except:` catches every exception.                                 *)
(***************************************************************************)
NoExc == "none"

Catches(clause, exc) ==
    IF exc = NoExc THEN FALSE
    ELSE IF clause = "bare" THEN TRUE
    ELSE IF clause = "Exception" THEN exc # "KeyboardInterrupt"
    ELSE exc = clause

(***************************************************************************)
(* run_command: how the child ends, and what the caller gets back.         *)
(***************************************************************************)
CmdOutcomes == {"ok", "nonzero", "timeout", "spawn_error"}

run_command(outcome, stdout) ==
    CASE outcome = "ok"      -> [exit_code |-> 0, stdout |-> stdout, stderr |-> ""]
      [] outcome = "nonzero" -> [exit_code |-> 1, stdout |-> stdout, stderr |-> "error"]
      [] outcome = "timeout" -> [exit_code |-> -1, stdout |-> <<>>, stderr |-> "Command timed out"]
      [] OTHER               -> [exit_code |-> -1, stdout |-> <<>>, stderr |-> "spawn failed"]

(***************************************************************************)
(* Files.                                                                  *)
(***************************************************************************)
NoFile == [exists |-> FALSE, lines |-> <<>>]
File(lines) == [exists |-> TRUE, lines |-> lines]
\* Path.touch(): creates an empty file, leaves an existing one as it is
touch(f) == IF f.exists THEN f ELSE File(<<>>)
\* write_file_lines(filepath, lines)
write_file_lines(lines) == File(lines)

\* the *.txtls files of output/<org>/, which cleanup() moves to raw_output/
TxtlsFiles == {"chaos.txtls", "amass.txtls", "wayback.txtls", "whois.txtls",
               "findomain.txtls", "subfinder.txtls", "subfinder2.txtls",
               "site_list.txtls"}
OutFiles == TxtlsFiles \cup {"rootdomain.txtls", "master"}

VARIABLES
    pc,            \* where run() is
    run_no,        \* how many times frogy was started in this working directory
    chaos,         \* self.chaos
    all_domains,   \* self.all_domains
    out,           \* output/<org>/: file name -> file
    raw,           \* output/<org>/raw_output/: file name -> file
    resolved_json, \* output/<org>/resolved.json (lines are JSON values)
    web_csv,       \* output/<org>/web_intelligence.csv (its data rows)
    live_assets,   \* ./live.assets, in the working directory
    results,       \* what build_results_table returned in generate_summary
    probe,         \* the httpx invocation of this run, if any
    dnsx,          \* how the dnsx stage of this run went
    summary,       \* the counts generate_summary printed
    budget,        \* lines the external tools and services can still emit in this run
    call,          \* the last stage called on its own: its number, stage, input, delta
    raised,        \* the exception the last stage let escape, NoExc if it returned
    exit_status    \* sys.exit status of run(), -1 while running, 0 after a normal return

vars == <<pc, run_no, chaos, all_domains, out, raw, resolved_json, web_csv,
          live_assets, results, probe, dnsx, summary, budget, call, raised,
          exit_status>>

\* what the stages after enumeration own
lateVars == <<resolved_json, web_csv, live_assets, results, probe, dnsx, summary>>

(***************************************************************************)
(* The merge every stage but chaos repeats inline:                         *)
(*     domains = run_unfurl_domains(domains)                               *)
(*     domains = run_anew(domains, self.all_domains)                       *)
(*     self.all_domains.extend(domains)                                    *)
(* merged gives self.all_domains afterwards.                               *)
(***************************************************************************)
\* the merge with an assignment in place of extend: self.all_domains = domains
merged_replacing(domains, existing, unfurl, anew) ==
    run_anew(run_unfurl_domains(domains, unfurl), existing, anew)

merged(domains, existing, unfurl, anew) ==
    existing \o run_anew(run_unfurl_domains(domains, unfurl), existing, anew)

merge(domains, unfurl, anew) == all_domains' = merged(domains, all_domains, unfurl, anew)

no_merge == UNCHANGED all_domains

\* the -o file of a tool after run_command: the tool may or may not have
\* written it; a tool that could not be spawned wrote nothing
tool_file(old, cmd, wrote, lines) ==
    IF wrote /\ cmd # "spawn_error" THEN File(lines) ELSE old

(***************************************************************************)
(* Frogy.subfinder_enumeration(domain_list_file), called with              *)
(* self.all_domains = existing: the subfinder.txtls and self.all_domains   *)
(* it leaves, and the record of its merge.                                 *)
(* avail: check_tool('subfinder'); cmd: how the subfinder process ends;    *)
(* wrote, lines: its -o file.                                              *)
(***************************************************************************)
subfinder_enumeration(existing, avail, cmd, wrote, lines, unfurl, anew) ==
    IF ~avail
    THEN [file |-> out["subfinder.txtls"], all |-> existing]
    ELSE LET subfinder_file == tool_file(out["subfinder.txtls"], cmd, wrote, lines)
         IN  [file |-> subfinder_file,
              all |-> IF subfinder_file.exists
                      THEN merged(read_file_lines(subfinder_file.lines), existing,
                                  unfurl, anew)
                      ELSE existing]

(***************************************************************************)
(* Frogy.chaos_enumeration()                                               *)
(* fetch: "index_error" (the index download or its parse raises),          *)
(* "no_match" (no entry names the organisation), "download_error" (the     *)
(* bundle download or unpack raises), "ok" (txt_lines are the lines of the *)
(* unpacked *.txt files).  The s_* inputs are those of the                 *)
(* subfinder_enumeration call every path but `not self.chaos` ends in.     *)
(***************************************************************************)
chaos_enumeration(fetch, txt_lines, unfurl, s_avail, s_cmd, s_wrote, s_lines, s_unfurl, s_anew) ==
    LET exc == IF fetch \in {"index_error", "download_error"} THEN "URLError" ELSE NoExc
        chaos_domains == read_file_lines(txt_lines)
        \* self.all_domains.extend(domains)
        extended == all_domains \o run_unfurl_domains(chaos_domains, unfurl)
        s == subfinder_enumeration(IF fetch = "ok" THEN extended ELSE all_domains,
                                   s_avail, s_cmd, s_wrote, s_lines, s_unfurl, s_anew)
    IN  IF ~chaos
        THEN no_merge /\ UNCHANGED out /\ raised' = NoExc
        ELSE IF exc # NoExc /\ ~Catches("Exception", exc)
        THEN no_merge /\ UNCHANGED out /\ raised' = exc
        ELSE /\ raised' = NoExc
             /\ all_domains' = s.all
             /\ out' = [out EXCEPT !["subfinder.txtls"] = s.file,
                                   !["chaos.txtls"] =
                                       IF fetch = "ok" THEN write_file_lines(chaos_domains)
                                       ELSE @]

(***************************************************************************)
(* Frogy.amass_enumeration()                                               *)
(***************************************************************************)
amass_enumeration(avail, cmd, wrote, lines, unfurl, anew) ==
    /\ raised' = NoExc
    /\ IF ~avail
       THEN no_merge /\ UNCHANGED out
       ELSE LET amass_file == tool_file(out["amass.txtls"], cmd, wrote, lines)
            IN  /\ out' = [out EXCEPT !["amass.txtls"] = amass_file]
                /\ IF amass_file.exists
                   THEN merge(read_file_lines(amass_file.lines), unfurl, anew)
                   ELSE no_merge

(***************************************************************************)
(* Frogy.wayback_enumeration()                                             *)
(* response: "error" (urlopen or the read raises) or "ok" with `data`, the *)
(* lines of the archive's answer, each an archived URL.                    *)
(***************************************************************************)
\* the host of one archived URL: line.split('/')[2].split(':')[0]
RECURSIVE wayback_domains(_)
wayback_domains(data) ==
    IF data = <<>> THEN <<>>
    ELSE LET line == Head(data)
             parts == split(line, "/")
             domain == IF Len(parts) >= 3 THEN split(parts[3], ":")[1] ELSE ""
         IN  (IF strip(line) # "" /\ Len(parts) >= 3 /\ domain # "" /\ HasChar(domain, ".")
              THEN <<domain>> ELSE <<>>) \o wayback_domains(Tail(data))

\* wayback_enumeration without its try/except: the error of urlopen escapes
wayback_enumeration_unguarded(response, data, unfurl, anew) ==
    IF response = "error"
    THEN raised' = "URLError" /\ no_merge /\ UNCHANGED out
    ELSE LET domains == unique_lines(wayback_domains(data))
         IN  /\ raised' = NoExc
             /\ out' = [out EXCEPT !["wayback.txtls"] = write_file_lines(domains)]
             /\ merge(domains, unfurl, anew)

wayback_enumeration(response, data, unfurl, anew) ==
    LET exc == IF response = "error" THEN "URLError" ELSE NoExc
    IN  IF exc = NoExc
        THEN LET domains == unique_lines(wayback_domains(data))
             IN  /\ raised' = NoExc
                 /\ out' = [out EXCEPT !["wayback.txtls"] = write_file_lines(domains)]
                 /\ merge(domains, unfurl, anew)
        ELSE IF Catches("Exception", exc)
        THEN /\ raised' = NoExc
             /\ out' = [out EXCEPT !["wayback.txtls"] = touch(@)]
             /\ no_merge
        ELSE raised' = exc /\ no_merge /\ UNCHANGED out

(***************************************************************************)
(* Frogy.certificate_enumeration()                                         *)
(* whois_avail, whois_stdout: check_tool('whois') and what whois printed;  *)
(* org_query, domain_query: "error" (the crt.sh request or its JSON parse  *)
(* raises) or "ok" with the common_name / name_value fields of the answer. *)
(***************************************************************************)
skip_keywords == {"whois", "domain", "proxy", "privacy", "redacted",
                  "protected", "dnstination", "whoisguard"}

\* the first line of stdout naming the registrant, <<>> if none does
RECURSIVE registrant_line(_)
registrant_line(stdout) ==
    IF stdout = <<>> THEN <<>>
    ELSE IF contains(Head(stdout), "Registrant Organization")
            \/ contains(Head(stdout), "Registrant Organisation")
         THEN <<Head(stdout)>>
         ELSE registrant_line(Tail(stdout))

\* line.split(':', 1): the text before the first ':' and the text after it
split_once(line, c) ==
    IF ~HasChar(line, c) THEN <<line>>
    ELSE LET i == CHOOSE k \in 1..Len(line) :
                      CharAt(line, k) = c /\ \A j \in 1..(k-1) : CharAt(line, j) # c
         IN  <<SubSeq(line, 1, i - 1), SubSeq(line, i + 1, Len(line))>>

\* for entry in data: cn = entry['common_name'].replace('*.', '')
RECURSIVE common_names(_)
common_names(entries) ==
    IF entries = <<>> THEN <<>>
    ELSE LET cn == replace_wildcard(Head(entries))
         IN  (IF cn # "" /\ HasChar(cn, ".") THEN <<cn>> ELSE <<>>)
             \o common_names(Tail(entries))

\* for name in entry['name_value'].split('\n'): name.replace('*.', '').strip()
RECURSIVE stripped_names(_)
stripped_names(names) ==
    IF names = <<>> THEN <<>>
    ELSE LET name == strip(replace_wildcard(Head(names)))
         IN  (IF name # "" /\ HasChar(name, ".") THEN <<name>> ELSE <<>>)
             \o stripped_names(Tail(names))

RECURSIVE name_values(_)
name_values(entries) ==
    IF entries = <<>> THEN <<>>
    ELSE stripped_names(split(Head(entries), "\n")) \o name_values(Tail(entries))

\* [d for d in domains if ' ' not in d and '@' not in d and '.' in d]
valid_domains(domains) ==
    SeqFilter(domains, {d \in Range(domains) :
                            ~HasChar(d, " ") /\ ~HasChar(d, "@") /\ HasChar(d, ".")})

\* the whois lookup at the head of certificate_enumeration: the registrant
\* it keeps ("" for none), or the exception the parse of the line raises
whois_registrant(whois_avail, whois_stdout) ==
    LET found == IF whois_avail THEN registrant_line(whois_stdout) ELSE <<>>
        fields == IF found = <<>> THEN <<"", "">> ELSE split_once(found[1], ":")
    IN  IF Len(fields) < 2
        \* line.split(':', 1)[1] of a line without ':'
        THEN [exc |-> "IndexError", registrant |-> ""]
        ELSE LET parsed == strip(fields[2])
                 lowered == lower(parsed)
             IN  [exc |-> NoExc,
                  registrant |-> IF \E keyword \in skip_keywords : contains(lowered, keyword)
                                 THEN "" ELSE parsed]

(***************************************************************************)
(* Frogy.certificate_enumeration()                                         *)
(* whois: what whois_registrant made of the whois lookup; org_query,       *)
(* domain_query: how the two crt.sh requests end; org_entries: the         *)
(* common_name of each entry of the first answer; domain_entries: the      *)
(* name_value of each entry of the second.                                 *)
(***************************************************************************)
certificate_enumeration(whois, org_query, org_entries, domain_query, domain_entries, unfurl, anew) ==
    LET exc == whois.exc
        registrant == whois.registrant
        by_org == IF registrant # "" /\ org_query = "ok" THEN common_names(org_entries)
                  ELSE <<>>
        by_domain == IF domain_query = "ok" THEN name_values(domain_entries) ELSE <<>>
        domains == valid_domains(unique_lines(by_org \o by_domain))
    IN  IF exc = NoExc
        THEN /\ raised' = NoExc
             /\ out' = [out EXCEPT !["whois.txtls"] = write_file_lines(domains)]
             /\ merge(domains, unfurl, anew)
        ELSE IF Catches("Exception", exc)
        THEN /\ raised' = NoExc
             /\ out' = [out EXCEPT !["whois.txtls"] = touch(@)]
             /\ no_merge
        ELSE raised' = exc /\ no_merge /\ UNCHANGED out

(***************************************************************************)
(* Frogy.findomain_enumeration()                                           *)
(* cmd: how the findomain process ends; printed: the lines of its stdout.  *)
(***************************************************************************)
findomain_enumeration(avail, cmd, printed, unfurl, anew) ==
    /\ raised' = NoExc
    /\ IF ~avail
       THEN no_merge /\ UNCHANGED out
       ELSE LET stdout == run_command(cmd, printed).stdout
                domains == stdout_lines(stdout)
            IN  IF stdout # <<>>
                THEN /\ out' = [out EXCEPT !["findomain.txtls"] = write_file_lines(domains)]
                     /\ merge(domains, unfurl, anew)
                ELSE /\ out' = [out EXCEPT !["findomain.txtls"] = touch(@)]
                     /\ no_merge

(***************************************************************************)
(* Frogy.extract_root_domains(domains)                                     *)
(* The pattern [^.]*.[^.]{2,3}(?:.[^.]{2,3})?$ : any run of non-dots, any  *)
(* one character, two or three non-dots and, optionally, any one character *)
(* and two or three non-dots more, up to the end.  re.finditer yields the  *)
(* match at the leftmost position that has one; it ends at the end of the  *)
(* string, so there is no second match.                                    *)
(***************************************************************************)
NonDots(s, i, j) == \A k \in i..j : CharAt(s, k) # "."

\* whether the whole of s matches the pattern
root_regex_matches(s) ==
    LET n == Len(s)
    IN  \/ \E ly \in 2..3 :
              /\ n - ly - 1 >= 0
              /\ NonDots(s, n - ly + 1, n)
              /\ NonDots(s, 1, n - ly - 1)
        \/ \E ly \in 2..3, lz \in 2..3 :
              /\ n - lz - 1 - ly - 1 >= 0
              /\ NonDots(s, n - lz + 1, n)
              /\ NonDots(s, n - lz - ly, n - lz - 1)
              /\ NonDots(s, 1, n - lz - ly - 2)

\* the matches with match.group() sliced one character late
root_matches_off_by_one(domain) ==
    LET starts == {i \in 1..Len(domain) : root_regex_matches(SubSeq(domain, i, Len(domain)))}
    IN  IF starts = {} THEN {}
        ELSE LET i == CHOOSE k \in starts : \A j \in starts : k <= j
             IN  {SubSeq(domain, i + 1, Len(domain))}

\* the matches re.finditer yields on domain
root_matches(domain) ==
    LET starts == {i \in 1..Len(domain) : root_regex_matches(SubSeq(domain, i, Len(domain)))}
    IN  IF starts = {} THEN {}
        ELSE LET i == CHOOSE k \in starts : \A j \in starts : k <= j
             IN  {SubSeq(domain, i, Len(domain))}

\* the set root_domains the loop builds
extract_root_domains(domains) ==
    UNION {LET domain == lower(strip(d))
           IN  IF domain = "" \/ HasChar(domain, " ") \/ HasChar(domain, "@") THEN {}
               ELSE {root \in {strip(lower(m)) : m \in root_matches(domain)} :
                         root # "" /\ HasChar(root, ".")}
           : d \in Range(domains)}

\* list(root_domains): a set of strings lists in an order that depends on
\* the interpreter's hash seed
Orders(S) == UNION {{f \in [1..Cardinality(T) -> T] : Range(f) = T} : T \in {S}}

(***************************************************************************)
(* Frogy.gather_root_domains()                                             *)
(* root_list: list(root_domains) as the interpreter orders it; avail:      *)
(* check_tool('subfinder'); cmd, wrote, lines: the subfinder process and   *)
(* its -o file subfinder2.txtls.                                           *)
(***************************************************************************)
gather_root_domains(root_list, avail, cmd, wrote, lines, unfurl, anew) ==
    LET root_domains == unique_lines(root_list)
        subfinder2_file == tool_file(out["subfinder2.txtls"], cmd, wrote, lines)
    IN  /\ raised' = NoExc
        /\ IF root_domains # <<>> /\ avail
           THEN /\ out' = [out EXCEPT !["rootdomain.txtls"] = write_file_lines(root_domains),
                                      !["subfinder2.txtls"] = subfinder2_file]
                /\ IF subfinder2_file.exists
                   THEN merge(read_file_lines(subfinder2_file.lines), unfurl, anew)
                   ELSE no_merge
           ELSE /\ out' = [out EXCEPT !["rootdomain.txtls"] = write_file_lines(root_domains)]
                /\ no_merge

(***************************************************************************)
(* One line of resolved.json, after json.loads: json is "invalid" (the     *)
(* line is not JSON), "number" or "array" (JSON, but no object) or         *)
(* "object"; an object's host is absent ("none"), a string ("str", the     *)
(* one element of host) or a list of strings ("list").                     *)
(***************************************************************************)
JsonOther(kind) == [json |-> kind, host_type |-> "none", host |-> <<>>, a |-> <<>>,
                    aaaa |-> <<>>, cname |-> <<>>, mx |-> <<>>, txt |-> <<>>]
JsonRecord(host_type, host, a, aaaa, cname) ==
    [json |-> "object", host_type |-> host_type, host |-> host, a |-> a,
     aaaa |-> aaaa, cname |-> cname, mx |-> <<>>, txt |-> <<>>]

(***************************************************************************)
(* Frogy.resolve_domains(): the loop over resolved.json, lines 737-748.    *)
(* It gives live_domains and the exception that ended it, if one did.      *)
(***************************************************************************)
RECURSIVE resolve_loop(_, _)
resolve_loop(lines, live_domains) ==
    IF lines = <<>> THEN [live_domains |-> live_domains, exc |-> NoExc]
    ELSE LET data == Head(lines)
             \* json.loads(line), then `'host' in data`
             exc == CASE data.json = "invalid" -> "JSONDecodeError"
                      [] data.json = "number"  -> "TypeError"
                      [] OTHER                 -> NoExc
             hosts == IF data.json = "object" /\ data.host_type # "none" THEN data.host
                      ELSE <<>>
         IN  IF exc = NoExc THEN resolve_loop(Tail(lines), live_domains \o hosts)
             ELSE IF Catches("JSONDecodeError", exc) THEN resolve_loop(Tail(lines), live_domains)
             ELSE [live_domains |-> live_domains, exc |-> exc]

(***************************************************************************)
(* Frogy.resolve_domains()                                                 *)
(* avail: check_tool('dnsx'); cmd: how the dnsx process ends; wrote,       *)
(* lines: its -o file resolved.json.                                       *)
(***************************************************************************)
master_domains(unfurl) ==
    run_unfurl_domains(unique_lines(all_domains \o <<"www." \o Domain, Domain>>), unfurl)

resolve_domains(avail, cmd, wrote, lines, unfurl) ==
    LET resolved_file == tool_file(resolved_json, cmd, wrote, lines)
        parsed == resolve_loop(resolved_file.lines, <<>>)
    IN  /\ out' = [out EXCEPT !["master"] = write_file_lines(master_domains(unfurl))]
        /\ UNCHANGED <<all_domains, web_csv, results, probe, summary>>
        /\ IF ~avail
           THEN /\ live_assets' = touch(live_assets)
                /\ dnsx' = "unavailable"
                /\ raised' = NoExc
                /\ UNCHANGED resolved_json
           ELSE /\ resolved_json' = resolved_file
                /\ dnsx' = "ran"
                /\ IF ~resolved_file.exists
                   THEN raised' = NoExc /\ UNCHANGED live_assets
                   ELSE IF parsed.exc = NoExc
                   THEN /\ live_assets' = write_file_lines(unique_lines(parsed.live_domains))
                        /\ raised' = NoExc
                   ELSE IF Catches("Exception", parsed.exc)
                   THEN live_assets' = touch(live_assets) /\ raised' = NoExc
                   ELSE raised' = parsed.exc /\ UNCHANGED live_assets

(***************************************************************************)
(* One data row of web_intelligence.csv: "full", or "cut" after its url    *)
(* column (httpx stopped while writing it), so that csv.DictReader gives   *)
(* None for the columns that follow.                                       *)
(***************************************************************************)
WebRow(kind, url, host, title) ==
    [kind |-> kind, url |-> url, host |-> host, status_code |-> "200", title |-> title]

\* the text line of a row, as far as web_discovery reads it
row_text(row) == row.url \o "," \o row.host \o "," \o row.title

\* the loop of web_discovery over the csv lines, lines 799-805
RECURSIVE site_urls(_)
site_urls(rows) ==
    IF rows = <<>> THEN <<>>
    ELSE LET url == strip(Head(rows).url)
         IN  (IF ~contains(lower(row_text(Head(rows))), "url") /\ url # ""
                 /\ startswith(url, "http")
              THEN <<url>> ELSE <<>>) \o site_urls(Tail(rows))

(***************************************************************************)
(* Frogy.web_discovery()                                                   *)
(* avail: check_tool('httpx'); cmd: how the httpx process ends; wrote,     *)
(* rows: its -o file web_intelligence.csv.                                 *)
(***************************************************************************)
NoProbe == [invoked |-> FALSE, hosts |-> <<>>]

\* web_discovery() without its test of `if not live_domains`
web_discovery_unguarded(avail, cmd, wrote, rows) ==
    LET live_domains == read_file_lines(live_assets.lines)
        csv_file == tool_file(web_csv, cmd, wrote, rows)
    IN  /\ raised' = NoExc
        /\ UNCHANGED <<all_domains, resolved_json, results, dnsx, summary>>
        /\ IF ~live_assets.exists \/ ~avail
           THEN UNCHANGED <<out, web_csv, live_assets, probe>>
           ELSE /\ probe' = [invoked |-> TRUE, hosts |-> live_assets.lines]
                /\ web_csv' = csv_file
                /\ out' = [out EXCEPT !["site_list.txtls"] =
                               IF csv_file.exists
                               THEN write_file_lines(unique_lines(site_urls(csv_file.lines)))
                               ELSE touch(@)]
                \* live_file.unlink(missing_ok=True)
                /\ live_assets' = NoFile

web_discovery(avail, cmd, wrote, rows) ==
    LET live_domains == read_file_lines(live_assets.lines)
        csv_file == tool_file(web_csv, cmd, wrote, rows)
    IN  /\ raised' = NoExc
        /\ UNCHANGED <<all_domains, resolved_json, results, dnsx, summary>>
        /\ IF ~live_assets.exists \/ live_domains = <<>> \/ ~avail
           THEN UNCHANGED <<out, web_csv, live_assets, probe>>
           ELSE /\ probe' = [invoked |-> TRUE, hosts |-> live_assets.lines]
                /\ web_csv' = csv_file
                /\ out' = [out EXCEPT !["site_list.txtls"] =
                               IF csv_file.exists
                               THEN write_file_lines(unique_lines(site_urls(csv_file.lines)))
                               ELSE touch(@)]
                \* live_file.unlink(missing_ok=True)
                /\ live_assets' = NoFile

(***************************************************************************)
(* Frogy.build_results_table(): the DNS map, lines 829-850.                *)
(* dns_data maps a host to its record; the loop stops at the first         *)
(* exception `except json.JSONDecodeError: continue` does not catch, which *)
(* the enclosing `except Exception: pass` swallows.                        *)
(***************************************************************************)
EmptyMap == [k \in {} |-> <<>>]
MapPut(map, key, value) ==
    [k \in DOMAIN map \cup {key} |-> IF k = key THEN value ELSE map[k]]

RECURSIVE dns_loop(_, _)
dns_loop(lines, dns_data) ==
    IF lines = <<>> THEN [dns_data |-> dns_data, exc |-> NoExc]
    ELSE LET data == Head(lines)
             \* json.loads(line); data.get('host', ''); dns_data[host] = ...
             exc == CASE data.json = "invalid" -> "JSONDecodeError"
                      [] data.json \in {"number", "array"} -> "AttributeError"
                      [] data.host_type = "list" /\ data.host # <<>> -> "TypeError"
                      [] OTHER -> NoExc
             host == IF data.host_type = "str" THEN data.host[1] ELSE ""
             record == [a |-> data.a, aaaa |-> data.aaaa, cname |-> data.cname,
                        mx |-> data.mx, txt |-> data.txt]
         IN  IF exc = NoExc
             THEN dns_loop(Tail(lines),
                           IF host # "" THEN MapPut(dns_data, host, record) ELSE dns_data)
             ELSE IF Catches("JSONDecodeError", exc) THEN dns_loop(Tail(lines), dns_data)
             ELSE [dns_data |-> dns_data, exc |-> exc]

load_dns_data ==
    LET loaded == dns_loop(resolved_json.lines, EmptyMap)
    IN  IF ~resolved_json.exists THEN [dns_data |-> EmptyMap, exc |-> NoExc]
        ELSE IF Catches("Exception", loaded.exc)
        THEN [dns_data |-> loaded.dns_data, exc |-> NoExc]
        ELSE loaded

(***************************************************************************)
(* Frogy.build_results_table(): the web map, lines 852-911.                *)
(***************************************************************************)
\* urllib.parse.urlparse(url).hostname, '' for None
urlparse_hostname(url) ==
    LET parts == split(url, "/")
        netloc == IF Len(parts) >= 3 /\ parts[2] = "" THEN parts[3] ELSE ""
    IN  lower(split(AfterLast(netloc, "@"), ":")[1])

web_append(web_data, host, entry) ==
    MapPut(web_data, host,
           (IF host \in DOMAIN web_data THEN web_data[host] ELSE <<>>) \o <<entry>>)

\* the csv.DictReader loop; title is the local variable, bound once a row
\* has been read whole
RECURSIVE reader_loop(_, _, _)
reader_loop(rows, web_data, title) ==
    IF rows = <<>> THEN [web_data |-> web_data, exc |-> NoExc, title |-> title]
    ELSE LET row == Head(rows)
             url == strip(row.url)
             \* row.get('host', '').strip() of a row cut before its host column
             exc == IF row.kind = "cut" THEN "AttributeError" ELSE NoExc
             host == IF strip(row.host) = "" /\ url # "" THEN urlparse_hostname(url)
                     ELSE strip(row.host)
             entry == [url |-> url, status |-> strip(row.status_code),
                       title |-> strip(row.title)]
         IN  IF exc # NoExc THEN [web_data |-> web_data, exc |-> exc, title |-> title]
             ELSE reader_loop(Tail(rows),
                              IF host # "" THEN web_append(web_data, host, entry)
                              ELSE web_data,
                              <<strip(row.title)>>)

\* the fallback loop over lines[1:], which reads columns by position and
\* uses `title` as the reader loop left it: unbound (<<>>) raises NameError,
\* which the bare `except: pass` swallows
RECURSIVE fallback_loop(_, _, _)
fallback_loop(rows, web_data, title) ==
    IF rows = <<>> THEN web_data
    ELSE LET row == Head(rows)
             url == strip(row.url)
             column == IF row.kind = "cut" THEN "" ELSE strip(row.host)
             host == IF column = "" /\ url # "" THEN urlparse_hostname(url) ELSE column
             status == IF row.kind = "cut" THEN "" ELSE strip(row.status_code)
             exc == IF host # "" /\ title = <<>> THEN "NameError" ELSE NoExc
         IN  IF exc # NoExc /\ Catches("bare", exc) THEN web_data
             ELSE fallback_loop(Tail(rows),
                                IF host # ""
                                THEN web_append(web_data, host,
                                                [url |-> url, status |-> status,
                                                 title |-> title[1]])
                                ELSE web_data,
                                title)

load_web_data ==
    LET read == reader_loop(web_csv.lines, EmptyMap, <<>>)
    IN  IF ~web_csv.exists THEN EmptyMap
        ELSE IF Catches("Exception", read.exc)
        THEN fallback_loop(web_csv.lines, read.web_data, read.title)
        ELSE read.web_data

(***************************************************************************)
(* Frogy.build_results_table(): the sources map, lines 913-938.            *)
(***************************************************************************)
\* source_files, in the order of the dict; chaos only if chaos.txtls exists
source_files ==
    <<[name |-> "amass", file |-> raw["amass.txtls"]],
      [name |-> "findomain", file |-> raw["findomain.txtls"]],
      [name |-> "wayback", file |-> raw["wayback.txtls"]],
      [name |-> "certificate", file |-> raw["whois.txtls"]],
      [name |-> "subfinder", file |-> raw["subfinder2.txtls"]]>>
    \o (IF out["chaos.txtls"].exists
        THEN <<[name |-> "chaos", file |-> out["chaos.txtls"]]>> ELSE <<>>)

RECURSIVE source_lines(_, _, _)
source_lines(source_name, domains, sources_map) ==
    IF domains = <<>> THEN sources_map
    ELSE LET normalized == domain_normalized(Head(domains))
             known == IF normalized \in DOMAIN sources_map THEN sources_map[normalized]
                      ELSE <<>>
         IN  source_lines(source_name, Tail(domains),
                          IF normalized = "" THEN sources_map
                          ELSE IF source_name \in Range(known) THEN MapPut(sources_map, normalized, known)
                          ELSE MapPut(sources_map, normalized, Append(known, source_name)))

RECURSIVE sources_loop(_, _)
sources_loop(files, sources_map) ==
    IF files = <<>> THEN sources_map
    ELSE sources_loop(Tail(files),
                      IF Head(files).file.exists
                      THEN source_lines(Head(files).name,
                                        read_file_lines(Head(files).file.lines), sources_map)
                      ELSE sources_map)

\* ', '.join(sources)
RECURSIVE join(_)
join(strs) ==
    IF strs = <<>> THEN ""
    ELSE IF Len(strs) = 1 THEN strs[1]
    ELSE strs[1] \o ", " \o join(Tail(strs))

(***************************************************************************)
(* Frogy.build_results_table(): the table, lines 940-985.                  *)
(***************************************************************************)
MaxIps == 3
MaxUrls == 2

FirstN(seq, n) == SubSeq(seq, 1, IF Len(seq) < n THEN Len(seq) ELSE n)

\* list(set(ips)) without the [:3] slice: every address is shown
ip_lists_uncut(ips) == Orders(Range(ips))

\* list(set(ips))[:3]: a set of strings lists in an order that depends on
\* the interpreter's hash seed
ip_lists(ips) == {FirstN(order, MaxIps) : order \in Orders(Range(ips))}

\* result_rows with the two tests of the status the other way round: an
\* address makes the record 'Live' whether or not the host has a URL
result_rows_live_first(domain, dns_data, web_data, sources_map) ==
    LET normalized == domain_normalized(domain)
        ips == IF normalized \in DOMAIN dns_data
               THEN dns_data[normalized].a \o dns_data[normalized].aaaa
               ELSE IF rstrip_dot(normalized) \in DOMAIN dns_data
               THEN dns_data[rstrip_dot(normalized)].a \o dns_data[rstrip_dot(normalized)].aaaa
               ELSE <<>>
        found == IF normalized \in DOMAIN web_data THEN web_data[normalized]
                 ELSE IF rstrip_dot(normalized) \in DOMAIN web_data
                 THEN web_data[rstrip_dot(normalized)]
                 ELSE <<>>
        web_urls == [i \in 1..Len(FirstN(found, MaxUrls)) |-> found[i].url]
        sources == IF normalized \in DOMAIN sources_map THEN sources_map[normalized]
                   ELSE IF rstrip_dot(normalized) \in DOMAIN sources_map
                   THEN sources_map[rstrip_dot(normalized)]
                   ELSE <<>>
        source_str == IF sources # <<>> THEN join(sources) ELSE "unknown"
    IN  {[domain |-> domain, ips |-> shown, web_urls |-> web_urls, sources |-> source_str,
          status |-> IF shown # <<>> THEN "Live"
                     ELSE IF web_urls # <<>> THEN "Web" ELSE "No IP"]
         : shown \in ip_lists(ips)}

\* the records the loop body can append for one line of the master file
result_rows(domain, dns_data, web_data, sources_map) ==
    LET normalized == domain_normalized(domain)
        ips == IF normalized \in DOMAIN dns_data
               THEN dns_data[normalized].a \o dns_data[normalized].aaaa
               ELSE IF rstrip_dot(normalized) \in DOMAIN dns_data
               THEN dns_data[rstrip_dot(normalized)].a \o dns_data[rstrip_dot(normalized)].aaaa
               ELSE <<>>
        found == IF normalized \in DOMAIN web_data THEN web_data[normalized]
                 ELSE IF rstrip_dot(normalized) \in DOMAIN web_data
                 THEN web_data[rstrip_dot(normalized)]
                 ELSE <<>>
        web_urls == [i \in 1..Len(FirstN(found, MaxUrls)) |-> found[i].url]
        sources == IF normalized \in DOMAIN sources_map THEN sources_map[normalized]
                   ELSE IF rstrip_dot(normalized) \in DOMAIN sources_map
                   THEN sources_map[rstrip_dot(normalized)]
                   ELSE <<>>
        source_str == IF sources # <<>> THEN join(sources) ELSE "unknown"
    IN  {[domain |-> domain, ips |-> shown, web_urls |-> web_urls, sources |-> source_str,
          status |-> IF web_urls # <<>> THEN "Web"
                     ELSE IF shown # <<>> THEN "Live" ELSE "No IP"]
         : shown \in ip_lists(ips)}

RECURSIVE result_tables(_, _, _, _)
result_tables(domains, dns_data, web_data, sources_map) ==
    IF domains = <<>> THEN {<<>>}
    ELSE {<<row>> \o rest :
              row \in result_rows(Head(domains), dns_data, web_data, sources_map),
              rest \in result_tables(Tail(domains), dns_data, web_data, sources_map)}

\* the tables build_results_table can return in the current state
build_results_table ==
    IF ~out["master"].exists THEN {<<>>}
    ELSE result_tables(read_file_lines(out["master"].lines), load_dns_data.dns_data,
                       load_web_data, sources_loop(source_files, EmptyMap))

(***************************************************************************)
(* Frogy.generate_summary()                                                *)
(***************************************************************************)
line_count(file) == IF file.exists THEN Len(read_file_lines(file.lines)) ELSE 0

NoSummary == [root_count |-> -1, subdomain_count |-> -1, resolved_count |-> -1,
              web_count |-> -1]

generate_summary(table) ==
    /\ table \in build_results_table
    /\ results' = table
    /\ summary' = [root_count |-> line_count(out["rootdomain.txtls"]),
                   subdomain_count |-> line_count(out["master"]),
                   resolved_count |-> line_count(live_assets),
                   web_count |-> line_count(out["site_list.txtls"])]
    /\ raised' = load_dns_data.exc
    /\ UNCHANGED <<all_domains, out, resolved_json, web_csv, live_assets,
                   probe, dnsx>>

(***************************************************************************)
(* Frogy.cleanup(): every *.txtls of output/<org>/ but rootdomain.txtls    *)
(* moves to raw_output/.                                                   *)
(***************************************************************************)
cleanup ==
    /\ raw' = [f \in TxtlsFiles |-> IF out[f].exists THEN out[f] ELSE raw[f]]
    /\ out' = [f \in OutFiles |-> IF f \in TxtlsFiles THEN NoFile ELSE out[f]]
    /\ raised' = NoExc
    /\ UNCHANGED <<all_domains, lateVars>>

(***************************************************************************)
(* What the external tools and services can answer.                        *)
(***************************************************************************)
\* lines an enumeration adapter can emit
RawLines == {"w.ex.co", "Ex.co.", "*.ex.co"}
\* archived URLs of the Wayback Machine
WaybackLines == {"http://" \o line \o ":80/a" : line \in RawLines}
\* the batches of lines an adapter can still emit
Batches == SeqsUpTo(RawLines, budget)
WaybackBatches == SeqsUpTo(WaybackLines, budget)
\* what whois can print
WhoisOutputs == {<<>>, <<"Registrant Organization: Ex Corp">>,
                 <<"Registrant Organization: Privacy Ltd">>, <<"Registrant Organization">>}

\* how the helper tools go where a stage reaches its merge; a stage that
\* returns before its merge invokes no helper
Helpers(reached) ==
    {[unfurl |-> u, anew |-> a] : u, a \in (IF reached THEN ToolPaths ELSE {"absent"})}

\* one invocation of an external tool that writes an -o file made of
\* `lines`: not installed; or spawned, ending in one of CmdOutcomes, having
\* written the file or not (a tool that could not be spawned wrote nothing)
ToolRuns(lines) ==
    {[avail |-> FALSE, cmd |-> "ok", wrote |-> FALSE, lines |-> <<>>]}
    \cup {[avail |-> TRUE, cmd |-> c, wrote |-> FALSE, lines |-> <<>>] : c \in CmdOutcomes}
    \cup {[avail |-> TRUE, cmd |-> c, wrote |-> TRUE, lines |-> b] :
              c \in CmdOutcomes \ {"spawn_error"}, b \in lines}

\* a stage that runs a tool writing `file` and merges the file it finds
FileToolInputs(file) ==
    UNION {{[tool |-> t, helpers |-> h] :
                h \in Helpers(t.avail /\ (t.wrote \/ out[file].exists))} :
           t \in ToolRuns(Batches)}

WaybackInputs ==
    {[response |-> "error", data |-> <<>>, helpers |-> h] : h \in Helpers(FALSE)}
    \cup {[response |-> "ok", data |-> d, helpers |-> h] :
              d \in WaybackBatches, h \in Helpers(TRUE)}

\* the answer of one crt.sh request: an error, or the entries
CrtAnswers == {[query |-> "error", entries |-> <<>>]}
              \cup {[query |-> "ok", entries |-> b] : b \in Batches}

WhoisInputs ==
    {whois_registrant(FALSE, <<>>)} \cup {whois_registrant(TRUE, o) : o \in WhoisOutputs}

CertificateInputs ==
    {[whois |-> w, org |-> o, domain |-> d, helpers |-> h] :
         w \in WhoisInputs, o \in CrtAnswers, d \in CrtAnswers, h \in Helpers(TRUE)}

FindomainInputs ==
    {[avail |-> FALSE, cmd |-> "ok", printed |-> <<>>, helpers |-> h] : h \in Helpers(FALSE)}
    \cup {[avail |-> TRUE, cmd |-> c, printed |-> <<>>, helpers |-> h] :
              c \in CmdOutcomes, h \in Helpers(FALSE)}
    \cup UNION {{[avail |-> TRUE, cmd |-> c, printed |-> b, helpers |-> h] :
                     b \in Batches \ {<<>>}, h \in Helpers(c \in {"ok", "nonzero"})} :
                c \in CmdOutcomes \ {"spawn_error"}}

RootsInputs ==
    {[root_list |-> r, tool |-> i.tool, helpers |-> i.helpers] :
         r \in Orders(extract_root_domains(all_domains)),
         i \in FileToolInputs("subfinder2.txtls")}

\* lines dnsx can write for the hosts it was given
DnsLines(hosts) ==
    {JsonOther("invalid"), JsonOther("number"), JsonOther("array")}
    \cup {JsonRecord("str", <<h>>, <<"1.1.1.1">>, <<>>, <<>>) : h \in hosts}
    \cup {JsonRecord("str", <<h>>, <<>>, <<>>, <<"c.ex.co">>) : h \in hosts}
    \cup {JsonRecord("list", <<h>>, <<>>, <<"::1">>, <<>>) : h \in hosts}

ResolveInputs ==
    UNION {{[tool |-> t, unfurl |-> u] :
                t \in ToolRuns(SeqsUpTo(DnsLines(Range(master_domains(u))), budget))} :
           u \in ToolPaths}

\* rows httpx can write for the hosts it was given
WebRows(hosts) ==
    {WebRow("full", "http://" \o h, h, "t") : h \in hosts}
    \cup {WebRow("cut", "https://" \o h, "", "") : h \in hosts}

WebInputs ==
    ToolRuns(SeqsUpTo(WebRows(Range(read_file_lines(live_assets.lines))), budget))

(***************************************************************************)
(* The stages, each on one answer of its tools.                            *)
(***************************************************************************)
Amass(i) ==
    amass_enumeration(i.tool.avail, i.tool.cmd, i.tool.wrote, i.tool.lines,
                      i.helpers.unfurl, i.helpers.anew)

Wayback(i) == wayback_enumeration(i.response, i.data, i.helpers.unfurl, i.helpers.anew)

Certificate(i) ==
    certificate_enumeration(i.whois, i.org.query, i.org.entries, i.domain.query,
                            i.domain.entries, i.helpers.unfurl, i.helpers.anew)

Findomain(i) ==
    findomain_enumeration(i.avail, i.cmd, i.printed, i.helpers.unfurl, i.helpers.anew)

\* self.subfinder_enumeration() called on its own
Subfinder(i) ==
    LET s == subfinder_enumeration(all_domains, i.tool.avail, i.tool.cmd, i.tool.wrote,
                                   i.tool.lines, i.helpers.unfurl, i.helpers.anew)
    IN  /\ all_domains' = s.all
        /\ out' = [out EXCEPT !["subfinder.txtls"] = s.file]
        /\ raised' = NoExc

Roots(i) ==
    gather_root_domains(i.root_list, i.tool.avail, i.tool.cmd, i.tool.wrote, i.tool.lines,
                        i.helpers.unfurl, i.helpers.anew)

Resolve(i) == resolve_domains(i.tool.avail, i.tool.cmd, i.tool.wrote, i.tool.lines, i.unfurl)

Web(i) == web_discovery(i.avail, i.cmd, i.wrote, i.lines)

(***************************************************************************)
(* Frogy.__init__ and setup_directories(): the output directory is         *)
(* removed and made anew; the working directory keeps live.assets.         *)
(***************************************************************************)
NoCall == [n |-> 0, stage |-> "none", input |-> <<>>, result |-> <<>>]

construct(flag) ==
    /\ chaos' = flag
    /\ all_domains' = <<>>
    /\ out' = [f \in OutFiles |-> NoFile]
    /\ raw' = [f \in TxtlsFiles |-> NoFile]
    /\ resolved_json' = NoFile
    /\ web_csv' = NoFile
    /\ results' = <<>>
    /\ summary' = NoSummary
    /\ probe' = NoProbe
    /\ dnsx' = "none"
    /\ budget' = MaxInput
    /\ raised' = NoExc
    /\ exit_status' = -1
    /\ UNCHANGED live_assets

\* the first run in a working directory without live.assets, before its
\* stages after enumeration
Started ==
    /\ run_no = 1
    /\ raw = [f \in TxtlsFiles |-> NoFile]
    /\ resolved_json = NoFile
    /\ web_csv = NoFile
    /\ live_assets = NoFile
    /\ results = <<>>
    /\ summary = NoSummary
    /\ probe = NoProbe
    /\ dnsx = "none"
    /\ raised = NoExc
    /\ exit_status = -1

\* a Frogy object just constructed
Fresh ==
    /\ all_domains = <<>>
    /\ out = [f \in OutFiles |-> NoFile]
    /\ Started

Init ==
    /\ pc = "chaos"
    /\ chaos \in BOOLEAN
    /\ budget = MaxInput
    /\ call = NoCall
    /\ Fresh

(***************************************************************************)
(* Frogy.run(): the stages in order.  A stage that lets an exception       *)
(* escape ends run() in sys.exit(1), by `except KeyboardInterrupt` or by   *)
(* `except Exception`.                                                     *)
(***************************************************************************)
\* the stage returned: go on with `next`, or leave through an except clause
Advance(next) ==
    IF raised' = NoExc
    THEN pc' = next /\ exit_status' = (IF next = "done" THEN 0 ELSE exit_status)
    ELSE pc' = "exit" /\ exit_status' = 1

\* the external tools emit n lines more, within the bound of the run
Emit(n) == n <= budget /\ budget' = budget - n

enumFrame == UNCHANGED <<lateVars, run_no, chaos, raw, call>>
lateFrame == UNCHANGED <<run_no, chaos, raw, call>>

RunChaos ==
    /\ pc = "chaos"
    /\ \E fetch \in (IF chaos THEN {"index_error", "no_match", "download_error", "ok"}
                     ELSE {"ok"}) :
          \E txt \in (IF chaos /\ fetch = "ok" THEN Batches ELSE {<<>>}),
             unfurl \in (IF chaos /\ fetch = "ok" THEN ToolPaths ELSE {"absent"}),
             s \in (IF chaos THEN FileToolInputs("subfinder.txtls")
                    ELSE {[tool |-> t, helpers |-> h] :
                              t \in ToolRuns({}) \cap [avail : {FALSE}, cmd : {"ok"},
                                                       wrote : {FALSE}, lines : {<<>>}],
                              h \in Helpers(FALSE)}) :
             /\ Emit(Len(txt) + Len(s.tool.lines))
             /\ chaos_enumeration(fetch, txt, unfurl, s.tool.avail, s.tool.cmd, s.tool.wrote,
                                  s.tool.lines, s.helpers.unfurl, s.helpers.anew)
    /\ Advance("amass")
    /\ enumFrame

RunAmass ==
    /\ pc = "amass"
    /\ \E i \in FileToolInputs("amass.txtls") : Emit(Len(i.tool.lines)) /\ Amass(i)
    /\ Advance("wayback")
    /\ enumFrame

RunWayback ==
    /\ pc = "wayback"
    /\ \E i \in WaybackInputs : Emit(Len(i.data)) /\ Wayback(i)
    /\ Advance("certificate")
    /\ enumFrame

RunCertificate ==
    /\ pc = "certificate"
    /\ \E i \in CertificateInputs :
          Emit(Len(i.org.entries) + Len(i.domain.entries)) /\ Certificate(i)
    /\ Advance("findomain")
    /\ enumFrame

RunFindomain ==
    /\ pc = "findomain"
    /\ \E i \in FindomainInputs : Emit(Len(i.printed)) /\ Findomain(i)
    /\ Advance("roots")
    /\ enumFrame

RunRoots ==
    /\ pc = "roots"
    /\ \E i \in RootsInputs : Emit(Len(i.tool.lines)) /\ Roots(i)
    /\ Advance("resolve")
    /\ enumFrame

RunResolve ==
    /\ pc = "resolve"
    /\ \E i \in ResolveInputs : Emit(Len(i.tool.lines)) /\ Resolve(i)
    /\ Advance("web")
    /\ lateFrame

RunWeb ==
    /\ pc = "web"
    /\ \E i \in WebInputs : Emit(Len(i.lines)) /\ Web(i)
    /\ Advance("summary")
    /\ lateFrame

RunSummary ==
    /\ pc = "summary"
    /\ \E table \in build_results_table : generate_summary(table)
    /\ Advance("cleanup")
    /\ UNCHANGED budget
    /\ lateFrame

RunCleanup ==
    /\ pc = "cleanup"
    /\ cleanup
    /\ Advance("done")
    /\ UNCHANGED <<run_no, chaos, budget, call>>

\* frogy is started again in the same working directory
NewRun ==
    /\ pc \in {"done", "exit"}
    /\ run_no < MaxRuns
    /\ run_no' = run_no + 1
    /\ pc' = "chaos"
    /\ \E flag \in BOOLEAN : construct(flag)
    /\ UNCHANGED call

\* one stage of run()
Stage ==
    \/ RunChaos \/ RunAmass \/ RunWayback \/ RunCertificate \/ RunFindomain
    \/ RunRoots \/ RunResolve \/ RunWeb \/ RunSummary \/ RunCleanup

Next == Stage \/ NewRun

Spec == Init /\ [][Next]_vars

(***************************************************************************)
(* The merging stages called on their own, one after the other, on a       *)
(* Frogy object just constructed: every tool is installed and writes its   *)
(* file; the helper tools go any way.  `call` keeps what the last call was *)
(* given and the delta it appended.                                        *)
(***************************************************************************)
\* stage calls in a row
MaxCalls == 2

Answered(tool) == tool.avail /\ tool.cmd = "ok" /\ tool.wrote

\* the delta of a call: what it appended to self.all_domains
appended == SubSeq(all_domains', Len(all_domains) + 1, Len(all_domains'))

Called(stage, input) ==
    /\ call' = [n |-> call.n + 1, stage |-> stage, input |-> input, result |-> appended]
    /\ UNCHANGED <<pc, run_no, chaos, raw, lateVars, budget, exit_status>>

CallAmass ==
    /\ pc = "stages" /\ call.n < MaxCalls
    /\ \E i \in FileToolInputs("amass.txtls") :
          Answered(i.tool) /\ Amass(i) /\ Called("amass", i)

CallWayback ==
    /\ pc = "stages" /\ call.n < MaxCalls
    /\ \E i \in WaybackInputs : i.response = "ok" /\ Wayback(i) /\ Called("wayback", i)

CallCertificate ==
    /\ pc = "stages" /\ call.n < MaxCalls
    /\ \E i \in CertificateInputs :
          /\ i.whois = whois_registrant(FALSE, <<>>)
          /\ i.org.query = "error" /\ i.domain.query = "ok"
          /\ Certificate(i) /\ Called("certificate", i)

CallFindomain ==
    /\ pc = "stages" /\ call.n < MaxCalls
    /\ \E i \in FindomainInputs :
          i.avail /\ i.cmd = "ok" /\ Findomain(i) /\ Called("findomain", i)

CallSubfinder ==
    /\ pc = "stages" /\ call.n < MaxCalls
    /\ \E i \in FileToolInputs("subfinder.txtls") :
          Answered(i.tool) /\ Subfinder(i) /\ Called("subfinder", i)

CallRoots ==
    /\ pc = "stages" /\ call.n < MaxCalls
    /\ \E i \in RootsInputs :
          /\ Answered(i.tool) /\ Roots(i)
          /\ Called("roots", [tool |-> i.tool, helpers |-> i.helpers])

InitEnum ==
    /\ pc = "stages"
    /\ chaos = FALSE
    /\ budget = MaxInput
    /\ call = NoCall
    /\ Fresh

NextEnum ==
    \/ CallAmass \/ CallWayback \/ CallCertificate \/ CallFindomain \/ CallSubfinder
    \/ CallRoots

SpecEnum == InitEnum /\ [][NextEnum]_vars

(***************************************************************************)
(* run_anew applied to lists of lines, on each of its paths.               *)
(***************************************************************************)
\* lines of new_lines, and of existing_lines
MaxAnewLen == 2

AnewInputs ==
    {[new_lines |-> n, existing_lines |-> e, anew |-> "absent"] :
         n, e \in SeqsUpTo(RawLines, MaxAnewLen)}

CallRunAnew ==
    /\ pc = "run_anew"
    /\ \E path \in ToolPaths :
          call' = [n |-> 1, stage |-> "run_anew",
                   input |-> [call.input EXCEPT !.anew = path],
                   result |-> run_anew(call.input.new_lines, call.input.existing_lines,
                                       path)]
    /\ UNCHANGED <<pc, run_no, chaos, all_domains, out, raw, lateVars, budget, raised,
                   exit_status>>

InitAnew ==
    /\ pc = "run_anew"
    /\ chaos = FALSE
    /\ budget = 0
    /\ call \in {[n |-> 0, stage |-> "run_anew", input |-> i, result |-> <<>>] :
                     i \in AnewInputs}
    /\ Fresh

NextAnew == CallRunAnew

SpecAnew == InitAnew /\ [][NextAnew]_vars

(***************************************************************************)
(* The stages after enumeration, from the state run() is in when amass     *)
(* alone found a host (w.ex.co), the Wayback Machine and crt.sh gave       *)
(* nothing and no other tool is installed; dnsx and httpx write up to      *)
(* MaxDnsLines lines between them.                                         *)
(***************************************************************************)
MaxDnsLines == 2

InitDns ==
    /\ pc = "resolve"
    /\ chaos = FALSE
    /\ budget = MaxDnsLines
    /\ call = NoCall
    /\ all_domains = <<"w.ex.co">>
    /\ out = [f \in OutFiles |->
                 CASE f = "amass.txtls" -> File(<<"w.ex.co">>)
                   [] f \in {"wayback.txtls", "whois.txtls"} -> File(<<>>)
                   [] f = "rootdomain.txtls" -> File(<<"w.ex.co">>)
                   [] OTHER -> NoFile]
    /\ Started

NextDns == RunResolve \/ RunWeb \/ RunSummary \/ RunCleanup

SpecDns == InitDns /\ [][NextDns]_vars

(***************************************************************************)
(* Frogy.run(), lines 1137-1146: how run() ends on an exception that a     *)
(* stage lets escape.  Both except clauses call sys.exit(1).               *)
(***************************************************************************)
sys_exit(exc) ==
    IF Catches("KeyboardInterrupt", exc) THEN 1
    ELSE IF Catches("Exception", exc) THEN 1
    ELSE 0

\* the user presses Ctrl-C while the stage at pc is about to do its work:
\* KeyboardInterrupt is no Exception, so no `except Exception` of a stage
\* catches it and it reaches the except clause of run()
Interrupt ==
    /\ pc \in {"chaos", "amass", "wayback", "certificate", "findomain", "roots",
               "resolve", "web", "summary", "cleanup"}
    /\ raised' = "KeyboardInterrupt"
    /\ pc' = "exit"
    /\ exit_status' = sys_exit("KeyboardInterrupt")
    /\ UNCHANGED <<run_no, chaos, all_domains, out, raw, lateVars, budget, call>>

\* an error no stage handles: write_file_lines of the master list (line
\* 703, outside every try of resolve_domains) raises OSError, e.g. on a
\* full disk; `except Exception` of run() catches it
WriteError ==
    /\ pc = "resolve"
    /\ raised' = "OSError"
    /\ pc' = "exit"
    /\ exit_status' = sys_exit("OSError")
    /\ UNCHANGED <<run_no, chaos, all_domains, out, raw, lateVars, budget, call>>

NextInt == Stage \/ NewRun \/ Interrupt \/ WriteError

SpecInt == Init /\ [][NextInt]_vars

(***************************************************************************)
(* run_command on its own: the processes of one command.  Popen starts the *)
(* leader in a session of its own (preexec_fn=os.setsid, not on Windows);  *)
(* the children it forks stay in its process group.  call.input gives      *)
(* what each process does on SIGTERM (process 1 is the leader): "dies",    *)
(* the default action, or "ignores", a handler or SIG_IGN.  call.result    *)
(* gives where run_command is, the state of each process and the exit code *)
(* run_command returns.                                                    *)
(***************************************************************************)
\* children of the leader
MaxChildren == 2

ProcessGroups == UNION {[1..(1 + k) -> {"dies", "ignores"}] : k \in 0..MaxChildren}

CmdStep(at, procs, exit_code) ==
    /\ call' = [call EXCEPT !.result = [at |-> at, procs |-> procs, exit_code |-> exit_code]]
    /\ UNCHANGED <<pc, run_no, chaos, all_domains, out, raw, lateVars, budget, raised,
                   exit_status>>

\* process.communicate(timeout=timeout) returns: the command ended in time
Communicate ==
    /\ pc = "run_command" /\ call.result.at = "communicate"
    /\ \E returncode \in {0, 1} :
          CmdStep("returned", [i \in DOMAIN call.result.procs |-> "exited"], returncode)

\* subprocess.TimeoutExpired: os.killpg(os.getpgid(process.pid), SIGTERM)
\* signals every process of the group, process.kill() on Windows ends the
\* leader alone; a signalled process that does not ignore SIGTERM is
\* terminating, it has not exited yet
TimeoutExpired ==
    /\ pc = "run_command" /\ call.result.at = "communicate"
    /\ CmdStep("wait",
               [i \in DOMAIN call.result.procs |->
                   IF call.input.os_name = "nt"
                   THEN (IF i = 1 THEN "terminating" ELSE "running")
                   ELSE (IF call.input.on_term[i] = "dies" THEN "terminating"
                         ELSE "running")],
               call.result.exit_code)

\* a terminating process exits, whenever the kernel gets to it
Terminate ==
    /\ pc = "run_command"
    /\ \E i \in DOMAIN call.result.procs :
          /\ call.result.procs[i] = "terminating"
          /\ CmdStep(call.result.at, [call.result.procs EXCEPT ![i] = "exited"],
                     call.result.exit_code)

\* process.wait() returns once the leader has exited, and run_command
\* returns -1, '', 'Command timed out ...'
Wait ==
    /\ pc = "run_command" /\ call.result.at = "wait"
    /\ call.result.procs[1] = "exited"
    /\ CmdStep("returned", call.result.procs, -1)

InitCmd ==
    /\ pc = "run_command"
    /\ chaos = FALSE
    /\ budget = 0
    /\ call \in {[n |-> 0, stage |-> "run_command",
                  input |-> [os_name |-> o, on_term |-> g],
                  result |-> [at |-> "communicate", procs |-> [i \in DOMAIN g |-> "running"],
                              exit_code |-> 0]] :
                     o \in {"posix", "nt"}, g \in ProcessGroups}
    /\ Fresh

NextCmd == Communicate \/ TimeoutExpired \/ Terminate \/ Wait

SpecCmd == InitCmd /\ [][NextCmd]_vars

(***************************************************************************)
(* The report, from the state InitDns describes: dnsx writes up to         *)
(* MaxReportDns records, among them one that gives the root domain five    *)
(* addresses, and httpx writes rows for the hosts of live.assets; the two  *)
(* tools write up to MaxReportLines lines between them.                    *)
(***************************************************************************)
MaxReportDns == 1
MaxReportLines == 4

ManyAddresses ==
    JsonRecord("str", <<Domain>>, <<"1.1.1.1", "1.1.1.2", "1.1.1.3">>, <<"::1", "::2">>, <<>>)

ReportDnsLines ==
    {ManyAddresses,
     JsonRecord("str", <<Domain>>, <<>>, <<>>, <<"c.ex.co">>),
     JsonRecord("str", <<"w.ex.co">>, <<"1.1.1.1">>, <<>>, <<>>)}

RunResolveReport ==
    /\ pc = "resolve"
    /\ \E t \in ToolRuns(SeqsUpTo(ReportDnsLines, MaxReportDns)) :
          Emit(Len(t.lines)) /\ Resolve([tool |-> t, unfurl |-> "absent"])
    /\ Advance("web")
    /\ lateFrame

InitReport ==
    /\ pc = "resolve"
    /\ chaos = FALSE
    /\ budget = MaxReportLines
    /\ call = NoCall
    /\ all_domains = <<"w.ex.co">>
    /\ out = [f \in OutFiles |->
                 CASE f = "amass.txtls" -> File(<<"w.ex.co">>)
                   [] f \in {"wayback.txtls", "whois.txtls"} -> File(<<>>)
                   [] f = "rootdomain.txtls" -> File(<<"w.ex.co">>)
                   [] OTHER -> NoFile]
    /\ Started

NextReport == RunResolveReport \/ RunWeb \/ RunSummary \/ RunCleanup

SpecReport == InitReport /\ [][NextReport]_vars

(***************************************************************************)
(* extract_root_domains applied to lists of hostnames, and then once more  *)
(* to its own result, alone or appended to the list it was given (as       *)
(* gather_root_domains sees self.all_domains after a widening).            *)
(***************************************************************************)
\* hostnames in the list
MaxHosts == 3

Hostnames == {"a.b.example.com", "example.com", "www.example.com", "example.info",
              "WWW.ex.co", "ex.co."}

CallExtractRoots ==
    /\ pc = "extract_root_domains" /\ call.n = 0
    /\ \E root_list \in Orders(extract_root_domains(call.input.domains)) :
          call' = [call EXCEPT !.n = 1, !.result = root_list]
    /\ UNCHANGED <<pc, run_no, chaos, all_domains, out, raw, lateVars, budget, raised,
                   exit_status>>

CallExtractAgain ==
    /\ pc = "extract_root_domains" /\ call.n = 1
    /\ \E domains \in {call.result, call.input.domains \o call.result} :
          \E root_list \in Orders(extract_root_domains(domains)) :
              call' = [call EXCEPT !.n = 2,
                                   !.input = [domains |-> domains, first |-> call.result],
                                   !.result = root_list]
    /\ UNCHANGED <<pc, run_no, chaos, all_domains, out, raw, lateVars, budget, raised,
                   exit_status>>

InitRoots ==
    /\ pc = "extract_root_domains"
    /\ chaos = FALSE
    /\ budget = 0
    /\ call \in {[n |-> 0, stage |-> "extract_root_domains",
                  input |-> [domains |-> h, first |-> <<>>], result |-> <<>>] :
                     h \in SeqsUpTo(Hostnames, MaxHosts)}
    /\ Fresh

NextRoots == CallExtractRoots \/ CallExtractAgain

SpecRoots == InitRoots /\ [][NextRoots]_vars

\* the order of the stages in run()
Following ==
    [stage \in {"chaos", "amass", "wayback", "certificate", "findomain", "roots",
                "resolve", "web", "summary", "cleanup"} |->
        CASE stage = "chaos" -> "amass"
          [] stage = "amass" -> "wayback"
          [] stage = "wayback" -> "certificate"
          [] stage = "certificate" -> "findomain"
          [] stage = "findomain" -> "roots"
          [] stage = "roots" -> "resolve"
          [] stage = "resolve" -> "web"
          [] stage = "web" -> "summary"
          [] stage = "summary" -> "cleanup"
          [] stage = "cleanup" -> "done"]

(***************************************************************************)
(* run() with the invocation of a stage's external tool as a step of its   *)
(* own.  In a stage that reaches its run_command or urlopen call the tool  *)
(* is invoked and answers (InvokeTool), then the stage goes on with the    *)
(* answer and returns (ReturnStage); a stage whose tool is not installed   *)
(* returns without an invocation.  call keeps the stage that invoked last, *)
(* how many invocations it has made and the last answer.  The tools emit   *)
(* MaxSeqLines lines in all.                                               *)
(***************************************************************************)
MaxSeqLines == 1

\* read_file_lines() catches FileNotFoundError and nothing else: a file that
\* is there and is not UTF-8 text raises
ReadOutcomes == {NoExc, "UnicodeDecodeError"}

\* subfinder_enumeration() on this answer gets to read_file_lines()
reads_output(i) ==
    /\ i.tool.avail
    /\ tool_file(out["subfinder.txtls"], i.tool.cmd, i.tool.wrote, i.tool.lines).exists

\* what the downloads and subfinder can answer in chaos_enumeration()
ChaosInputs ==
    {i \in [fetch : {"index_error", "no_match", "download_error", "ok"}, txt : Batches,
            unfurl : ToolPaths, tool : ToolRuns(Batches), helpers : Helpers(TRUE),
            read : ReadOutcomes] :
        /\ i.fetch # "ok" => (i.txt = <<>> /\ i.unfurl = "absent")
        /\ i.read # NoExc => reads_output(i)
        /\ i.helpers \in Helpers(reads_output(i) /\ i.read = NoExc)}

\* what the tools of a stage can answer
StageInputs(stage) ==
    CASE stage = "chaos"       -> ChaosInputs
      [] stage = "amass"       -> FileToolInputs("amass.txtls")
      [] stage = "wayback"     -> WaybackInputs
      [] stage = "certificate" -> CertificateInputs
      [] stage = "findomain"   -> FindomainInputs
      [] stage = "roots"       -> RootsInputs
      [] stage = "resolve"     -> ResolveInputs
      [] stage = "web"         -> WebInputs
      [] OTHER                 -> {}

\* whether the stage, on this answer, gets to the call that invokes its tool
invokes(stage, i) ==
    CASE stage = "chaos"       -> chaos /\ i.tool.avail
      [] stage = "amass"       -> i.tool.avail
      [] stage = "wayback"     -> TRUE
      [] stage = "certificate" -> TRUE
      [] stage = "findomain"   -> i.avail
      [] stage = "roots"       -> i.tool.avail /\ unique_lines(i.root_list) # <<>>
      [] stage = "resolve"     -> i.tool.avail
      [] stage = "web"         -> /\ i.avail /\ live_assets.exists
                                  /\ read_file_lines(live_assets.lines) # <<>>
      [] OTHER                 -> FALSE

\* the lines of an answer
emitted(stage, i) ==
    CASE stage = "chaos"       -> Len(i.txt) + Len(i.tool.lines)
      [] stage \in {"amass", "roots", "resolve"} -> Len(i.tool.lines)
      [] stage = "wayback"     -> Len(i.data)
      [] stage = "certificate" -> Len(i.org.entries) + Len(i.domain.entries)
      [] stage = "findomain"   -> Len(i.printed)
      [] OTHER                 -> Len(i.lines)

\* invocations the stage has made so far
attempts(stage) == IF call.stage = stage THEN call.n ELSE 0

\* chaos_enumeration(): subfinder_enumeration() raises inside the try block
\* (lines 422 and 455), and the except clause is entered
handler_entered(i) ==
    /\ i.fetch \in {"ok", "no_match"}
    /\ reads_output(i)
    /\ Catches("Exception", i.read)

\* chaos_enumeration() up to the exception that subfinder_enumeration() raises
\* in the try block: what it has done to self.all_domains and to the files
chaos_until_raise(i) ==
    LET chaos_domains == read_file_lines(i.txt)
    IN  /\ all_domains' = IF i.fetch = "ok"
                          THEN all_domains \o run_unfurl_domains(chaos_domains, i.unfurl)
                          ELSE all_domains
        /\ out' = [out EXCEPT !["subfinder.txtls"] =
                                  tool_file(@, i.tool.cmd, i.tool.wrote, i.tool.lines),
                              !["chaos.txtls"] =
                                  IF i.fetch = "ok" THEN write_file_lines(chaos_domains)
                                  ELSE @]

\* the subfinder_enumeration() call of the except clause, to its end: what it
\* raises is raised by chaos_enumeration()
handler_call(i) ==
    LET s == subfinder_enumeration(all_domains, i.tool.avail, i.tool.cmd, i.tool.wrote, i.tool.lines, i.helpers.unfurl, i.helpers.anew)
    IN  /\ raised' = i.read
        /\ out' = [out EXCEPT !["subfinder.txtls"] = s.file]
        /\ all_domains' = IF i.read = NoExc THEN s.all ELSE all_domains

\* chaos_enumeration() with self.chaos set, from the answer of its last
\* subfinder invocation to its return
Chaos(i) ==
    IF attempts("chaos") = 2 \/ i.read # NoExc
    THEN (attempts("chaos") = 2 \/ ~handler_entered(i)) /\ handler_call(i)
    ELSE chaos_enumeration(i.fetch, i.txt, i.unfurl, i.tool.avail, i.tool.cmd, i.tool.wrote, i.tool.lines, i.helpers.unfurl, i.helpers.anew)

StageBody(stage, i) ==
    \/ stage = "chaos" /\ Chaos(i) /\ UNCHANGED lateVars
    \/ stage = "amass" /\ Amass(i) /\ UNCHANGED lateVars
    \/ stage = "wayback" /\ Wayback(i) /\ UNCHANGED lateVars
    \/ stage = "certificate" /\ Certificate(i) /\ UNCHANGED lateVars
    \/ stage = "findomain" /\ Findomain(i) /\ UNCHANGED lateVars
    \/ stage = "roots" /\ Roots(i) /\ UNCHANGED lateVars
    \/ stage = "resolve" /\ Resolve(i)
    \/ stage = "web" /\ Web(i)

\* chaos_enumeration() returns at once when self.chaos is not set
SkipChaos == ~chaos /\ RunChaos

\* the first invocation of a stage
InvokeTool ==
    /\ attempts(pc) = 0
    /\ \E i \in StageInputs(pc) :
          /\ invokes(pc, i)
          /\ emitted(pc, i) <= budget
          /\ call' = [n |-> 1, stage |-> pc, input |-> i, result |-> <<>>]
    /\ UNCHANGED <<pc, run_no, chaos, all_domains, out, raw, lateVars, budget, raised,
                   exit_status>>

\* chaos_enumeration(): the except clause calls subfinder_enumeration(), and
\* subfinder is invoked again
InvokeAgain ==
    /\ pc = "chaos"
    /\ attempts("chaos") = 1
    /\ handler_entered(call.input)
    /\ Emit(emitted("chaos", call.input))
    /\ chaos_until_raise(call.input)
    /\ \E i \in ChaosInputs :
          /\ i.tool.avail
          /\ i.fetch = call.input.fetch /\ i.txt = <<>> /\ i.unfurl = "absent"
          /\ emitted("chaos", i) <= budget'
          /\ call' = [n |-> 2, stage |-> pc, input |-> i, result |-> <<>>]
    /\ UNCHANGED <<pc, run_no, chaos, raw, lateVars, raised, exit_status>>

ReturnStage ==
    /\ pc \in DOMAIN Following
    /\ pc = "chaos" => chaos
    /\ \E i \in (IF attempts(pc) > 0 THEN {call.input}
                 ELSE {j \in StageInputs(pc) : ~invokes(pc, j) /\ emitted(pc, j) = 0}) :
          /\ Emit(emitted(pc, i))
          /\ StageBody(pc, i)
    /\ Advance(Following[pc])
    /\ UNCHANGED <<run_no, chaos, raw, call>>

InitSeq ==
    /\ pc = "chaos"
    /\ chaos \in BOOLEAN
    /\ budget = MaxSeqLines
    /\ call = NoCall
    /\ Fresh

NextSeq == SkipChaos \/ InvokeTool \/ InvokeAgain \/ ReturnStage \/ RunSummary \/ RunCleanup

SpecSeq == InitSeq /\ [][NextSeq]_vars

(***************************************************************************)
(* The late stages of a run whose accumulator holds a host as an adapter   *)
(* printed it, in upper case and with its trailing dot (RawLines): the     *)
(* master list, and with it the host column of resolved.json and of        *)
(* web_intelligence.csv, hold it in that form.                             *)
(***************************************************************************)
MaxJoinLines == 2

InitJoin ==
    /\ pc = "resolve"
    /\ chaos = FALSE
    /\ budget = MaxJoinLines
    /\ call = NoCall
    /\ all_domains = <<"Ex.co.">>
    /\ out = [f \in OutFiles |->
                 CASE f = "amass.txtls" -> File(<<"Ex.co.">>)
                   [] f \in {"wayback.txtls", "whois.txtls"} -> File(<<>>)
                   [] f = "rootdomain.txtls" -> File(<<"ex.co">>)
                   [] OTHER -> NoFile]
    /\ Started

NextJoin == RunResolve \/ RunWeb \/ RunSummary \/ RunCleanup

SpecJoin == InitJoin /\ [][NextJoin]_vars

(***************************************************************************)
(* The properties.                                                         *)
(***************************************************************************)
\* C1: self.all_domains never holds two entries that are equal after
\* lower() and strip(), whatever the adapters emit and whichever tools
\* are installed.
C1_NoTwoEqualEntries ==
    \A i, j \in 1..Len(all_domains) :
        i # j => lower_strip(all_domains[i]) # lower_strip(all_domains[j])

\* whether a string is no hostname candidate: empty, a wildcard, with '@'
\* or whitespace inside, or without '.'
is_invalid_candidate(s) ==
    \/ s = ""
    \/ startswith(s, "*.")
    \/ HasChar(s, "@")
    \/ HasChar(strip(s), " ")
    \/ ~HasChar(s, ".")

\* C5: no entry of self.all_domains is empty, begins with '*.', contains
\* '@' or inner whitespace, or lacks a '.'.
C5_OnlyValidEntries ==
    \A i \in 1..Len(all_domains) : ~is_invalid_candidate(all_domains[i])

\* the raw output file of each adapter, by the identifier the report uses
AdapterFiles ==
    {[name |-> "amass", file |-> "amass.txtls"],
     [name |-> "findomain", file |-> "findomain.txtls"],
     [name |-> "wayback", file |-> "wayback.txtls"],
     [name |-> "certificate", file |-> "whois.txtls"],
     [name |-> "subfinder", file |-> "subfinder.txtls"],
     [name |-> "subfinder", file |-> "subfinder2.txtls"],
     [name |-> "chaos", file |-> "chaos.txtls"]}

\* an adapter's raw output file, in output/<org>/ or, once cleanup() has
\* moved it, in raw_output/
raw_output(f) == IF out[f].exists THEN out[f] ELSE raw[f]

lists(f, host) ==
    \E line \in Range(read_file_lines(raw_output(f).lines)) :
        domain_normalized(line) = domain_normalized(host)

\* C2: in the report of a complete run, a host that an adapter's raw output
\* file lists carries that adapter's identifier in its sources, and a host
\* whose sources are 'unknown' is listed in no adapter's raw output file.
C2_SourcesNameEveryAdapter ==
    pc \in {"cleanup", "done"} =>
        \A k \in 1..Len(results) :
            /\ \A a \in AdapterFiles :
                   lists(a.file, results[k].domain) => contains(results[k].sources, a.name)
            /\ results[k].sources = "unknown" =>
                   \A a \in AdapterFiles : ~lists(a.file, results[k].domain)

\* C3: a merging stage called a second time with the same adapter output
\* and the same helper tools, right after its first call, appends nothing:
\* its delta is empty and self.all_domains is unchanged.
C3_SecondCallAppendsNothing ==
    [][(/\ call.n > 0
        /\ call'.n = call.n + 1
        /\ call'.stage = call.stage
        /\ call'.input = call.input)
       => (all_domains' = all_domains /\ call'.result = <<>>)]_vars

\* the delta as specified: the lines of new_lines whose lower().strip() is
\* that of no line of existing_lines
new_to(new_lines, existing_lines) ==
    SeqFilter(new_lines,
              {line \in Range(new_lines) :
                   \A known \in Range(existing_lines) :
                       lower_strip(line) # lower_strip(known)})

\* C4: on each of its three paths run_anew returns the lines of new_lines
\* whose lower().strip() is absent from existing_lines, and no line of
\* existing_lines.
C4_SameDeltaOnEveryPath ==
    (call.stage = "run_anew" /\ call.n > 0) =>
        /\ call.result = new_to(call.input.new_lines, call.input.existing_lines)
        /\ \A k \in 1..Len(call.result) :
               call.result[k] \notin Range(call.input.existing_lines)

\* two different strings that name one asset: equal after lower(), strip()
\* and rstrip('.')
same_asset(s, t) == s # t /\ domain_normalized(s) = domain_normalized(t)

one_entry_each(lines) ==
    \A i, j \in 1..Len(lines) : i # j => ~same_asset(lines[i], lines[j])

\* C6: strings that differ only in case, surrounding whitespace or a
\* trailing dot make one entry of self.all_domains, one line of the master
\* list and one row of the report.
C6_OneAssetOneEntry ==
    /\ one_entry_each(all_domains)
    /\ one_entry_each(read_file_lines(out["master"].lines))
    /\ one_entry_each([k \in 1..Len(results) |-> results[k].domain])

\* C7: once resolve_domains has found dnsx missing, the master list is
\* written, live.assets lists no host, httpx is not invoked, and the report
\* has one record for each line of the master list, without an IP and with
\* status 'No IP'; no stage raises.
C7_WithoutDnsx ==
    dnsx = "unavailable" =>
        /\ out["master"].exists
        /\ raised = NoExc
        /\ pc = "web" => read_file_lines(live_assets.lines) = <<>>
        /\ ~probe.invoked
        /\ pc \in {"cleanup", "done"} =>
               LET master == read_file_lines(out["master"].lines)
               IN  /\ Len(results) = Len(master)
                   /\ \A k \in 1..Len(results) :
                          /\ results[k].domain = master[k]
                          /\ results[k].ips = <<>>
                          /\ results[k].status = "No IP"

\* run() has returned: generate_summary has printed its counts and cleanup
\* has moved the raw output files
Completed ==
    /\ pc = "done" /\ exit_status = 0
    /\ summary # NoSummary
    /\ \A f \in TxtlsFiles : ~out[f].exists

well_formed(line) == line.json = "object" /\ line.host_type = "str"
malformed(line) == line.json # "object" \/ line.host_type = "list"

\* a record of resolved.json gives the host an a or an aaaa value
has_address(host) ==
    \E line \in Range(resolved_json.lines) :
        /\ line.json = "object"
        /\ host \in Range(line.host)
        /\ line.a # <<>> \/ line.aaaa # <<>>

dnsx_hosts == UNION {Range(line.host) : line \in Range(resolved_json.lines)}

\* C9: when dnsx has written well-formed records, resolve_domains lists a
\* host in live.assets if and only if a record gives it an a or an aaaa
\* value, and httpx is handed no other host.
C9_LiveIffAddress ==
    (/\ dnsx = "ran" /\ resolved_json.exists
     /\ \A line \in Range(resolved_json.lines) : well_formed(line))
    => /\ pc = "web" =>
              \A host \in dnsx_hosts \cup Range(live_assets.lines) :
                  host \in Range(live_assets.lines) <=> has_address(host)
       /\ probe.invoked => \A host \in Range(probe.hosts) : has_address(host)

\* C10: when one line of resolved.json is malformed, the host of every
\* well-formed line before and after it is in live.assets after
\* resolve_domains and in the DNS map of build_results_table.
C10_OnlyTheBadLineIsSkipped ==
    (/\ pc = "web" /\ dnsx = "ran" /\ resolved_json.exists
     /\ Cardinality({k \in 1..Len(resolved_json.lines) :
                         malformed(resolved_json.lines[k])}) = 1)
    => \A line \in Range(resolved_json.lines) :
           well_formed(line) =>
               /\ line.host[1] \in Range(live_assets.lines)
               /\ line.host[1] \in DOMAIN load_dns_data.dns_data

\* C11: when the user interrupts run(), a report has been produced by the
\* time the process exits (generate_summary has printed its counts), and
\* after the interrupt no stage of this run is executed any more.
C11_InterruptedRunReports ==
    [][/\ (raised' = "KeyboardInterrupt" /\ pc' = "exit") => summary' # NoSummary
       /\ (raised = "KeyboardInterrupt" /\ pc = "exit") => run_no' = run_no + 1]_vars

\* C12: a run ended by a user interrupt exits with a status that is not
\* zero and is not the status of a run ended by an unrecoverable error.
C12_InterruptHasItsOwnStatus ==
    (pc = "exit" /\ raised = "KeyboardInterrupt") =>
        /\ exit_status # 0
        /\ exit_status # sys_exit("OSError")

\* C13: when a command has exceeded its timeout, process.wait() is bound to
\* return (the leader has exited or is terminating), and when run_command
\* returns -1 every process of the command's process group has exited.
C13_TimeoutEndsTheGroup ==
    call.stage = "run_command" =>
        /\ call.result.at = "wait" => call.result.procs[1] # "running"
        /\ (call.result.at = "returned" /\ call.result.exit_code = -1) =>
               \A i \in DOMAIN call.result.procs : call.result.procs[i] = "exited"

\* the maps build_results_table builds from resolved.json and
\* web_intelligence.csv, looked up as its loop looks them up
has_web_endpoint(domain) == domain_normalized(domain) \in DOMAIN load_web_data

addresses(domain) ==
    LET dns_data == load_dns_data.dns_data
    IN  IF domain_normalized(domain) \in DOMAIN dns_data
        THEN dns_data[domain_normalized(domain)].a \o dns_data[domain_normalized(domain)].aaaa
        ELSE <<>>

\* C14: every record of the report has status 'Web' if its host has a web
\* endpoint, otherwise 'Live' if the host has an a or aaaa value, otherwise
\* 'No IP'; a host with web endpoints is 'Web' even without an IP.
C14_StatusByPriority ==
    pc \in {"cleanup", "done"} =>
        \A k \in 1..Len(results) :
            results[k].status =
                IF has_web_endpoint(results[k].domain) THEN "Web"
                ELSE IF addresses(results[k].domain) # <<>> THEN "Live"
                ELSE "No IP"

\* a report with a host that has a web endpoint and no address, one that
\* has an address and no web endpoint, and one that has neither
C14_EveryStatusReported ==
    /\ pc = "done"
    /\ \E k \in 1..Len(results) :
          /\ results[k].status = "Web" /\ results[k].ips = <<>>
          /\ has_web_endpoint(results[k].domain)
    /\ \E k \in 1..Len(results) : results[k].status = "No IP"

\* C15: with the master list, resolved.json, web_intelligence.csv and the
\* raw source files fixed, build_results_table returns one and the same
\* sequence of records whenever it is called, in whichever interpreter
\* process.
C15_OneTableOnly ==
    pc = "summary" => \A t1, t2 \in build_results_table : t1 = t2

\* C16: every record shows at most MaxIps addresses, each one of the
\* host's a and aaaa values and none twice, and at most MaxUrls URLs, while
\* the DNS map keeps every value of the record dnsx wrote for the host.
C16_TruncationIsDisplayOnly ==
    pc \in {"cleanup", "done"} =>
        /\ \A k \in 1..Len(results) :
               /\ Len(results[k].ips) <= MaxIps
               /\ Range(results[k].ips) \subseteq Range(addresses(results[k].domain))
               /\ Cardinality(Range(results[k].ips)) = Len(results[k].ips)
               /\ Len(results[k].ips) < MaxIps =>
                      Range(results[k].ips) = Range(addresses(results[k].domain))
               /\ Len(results[k].web_urls) <= MaxUrls
        /\ \A host \in DOMAIN load_dns_data.dns_data :
               \E line \in Range(resolved_json.lines) :
                   /\ line.json = "object" /\ line.host = <<host>>
                   /\ load_dns_data.dns_data[host] =
                          [a |-> line.a, aaaa |-> line.aaaa, cname |-> line.cname,
                           mx |-> line.mx, txt |-> line.txt]

\* a report whose record of the root domain shows three of the five
\* addresses the DNS map keeps for it, and two of its three URLs
C16_FiveKeptThreeShown ==
    /\ pc = "done"
    /\ \E k \in 1..Len(results) :
          /\ Len(results[k].ips) = MaxIps
          /\ Len(addresses(results[k].domain)) = 5
          /\ Len(results[k].web_urls) = MaxUrls
          /\ Len(load_web_data[domain_normalized(results[k].domain)]) = 3

\* a hostname of at least two labels, none of them empty
has_two_labels(host) ==
    LET labels == split(host, ".")
    IN  Len(labels) >= 2 /\ \A i \in 1..Len(labels) : labels[i] # ""

\* root is made of the final n labels of host
final_labels(root, host, n) ==
    /\ Len(split(root, ".")) = n
    /\ \/ root = host
       \/ /\ Len(host) > Len(root)
          /\ SubSeq(host, Len(host) - Len(root), Len(host)) = "." \o root

is_root_of(root, host) ==
    final_labels(root, lower(strip(host)), 2) \/ final_labels(root, lower(strip(host)), 3)

\* C17: extract_root_domains returns, for every hostname of at least two
\* labels, a root made of its final two or final three labels, returns
\* nothing else and no root twice; for a.b.example.com, example.com and
\* www.example.com it returns example.com alone.
C17_RootsAreFinalLabels ==
    (call.stage = "extract_root_domains" /\ call.n = 1) =>
        /\ \A host \in Range(call.input.domains) :
               has_two_labels(host) => \E root \in Range(call.result) : is_root_of(root, host)
        /\ \A root \in Range(call.result) :
               \E host \in Range(call.input.domains) : is_root_of(root, host)
        /\ Cardinality(Range(call.result)) = Len(call.result)
        /\ call.input.domains = <<"a.b.example.com", "example.com", "www.example.com">> =>
               call.result = <<"example.com">>

\* C18: extract_root_domains applied to its own result, or to the list it
\* was given with its result appended, returns the same set of roots.
C18_RootsAreAFixedPoint ==
    (call.stage = "extract_root_domains" /\ call.n = 2) =>
        Range(call.result) = Range(call.input.first)

\* the roots of a list were extracted again from the list widened by
\* them, and they are not the hostnames of the list themselves
C18_ExtractedTwice ==
    /\ call.stage = "extract_root_domains" /\ call.n = 2
    /\ call.input.first = <<"example.com">>
    /\ call.input.domains = <<"a.b.example.com", "www.example.com", "example.com">>
    /\ call.result = <<"example.com">>

\* s is a prefix of t
is_prefix(s, t) == Len(s) <= Len(t) /\ SubSeq(t, 1, Len(s)) = s

C20_OneStageOneAttempt ==
    [][/\ (pc \in DOMAIN Following /\ pc' # pc) => pc' \in {Following[pc], "exit"}
       /\ call' # call => (call'.stage = pc /\ pc' = pc)
       /\ call'.n <= 1]_vars

\* C21: build_results_table joins by canonical host: when the DNS map
\* holds a record with addresses, or the web map holds endpoints, under a
\* host that equals a host of the master list once both are lowercased,
\* trimmed and stripped of a trailing dot, the asset record of that master
\* host shows an address of the record, or a URL of the endpoints.
C21_JoinedByCanonicalHost ==
    pc \in {"cleanup", "done"} =>
        \A k \in 1..Len(results) :
            /\ \A host \in DOMAIN load_dns_data.dns_data :
                   LET record == load_dns_data.dns_data[host]
                   IN  (/\ domain_normalized(host) = domain_normalized(results[k].domain)
                        /\ record.a \o record.aaaa # <<>>)
                           => Range(results[k].ips) \cap Range(record.a \o record.aaaa) # {}
            /\ \A host \in DOMAIN load_web_data :
                   domain_normalized(host) = domain_normalized(results[k].domain)
                       => \E i \in 1..Len(load_web_data[host]) :
                              load_web_data[host][i].url \in Range(results[k].web_urls)

\* the stages run() gets to after a stage has returned
RECURSIVE later(_)
later(stage) ==
    IF stage \notin DOMAIN Following THEN {}
    ELSE {Following[stage]} \cup later(Following[stage])

\* the enumeration stages and the raw output file of each one's adapter
AdapterStages ==
    {[stage |-> "amass", file |-> "amass.txtls"],
     [stage |-> "wayback", file |-> "wayback.txtls"],
     [stage |-> "certificate", file |-> "whois.txtls"],
     [stage |-> "findomain", file |-> "findomain.txtls"],
     [stage |-> "roots", file |-> "subfinder2.txtls"]}

\* C22: once an enumeration stage has returned, whether its adapter
\* succeeded, was not installed, failed or timed out, the adapter's raw
\* output file exists, possibly empty.
C22_RawOutputWhateverHappened ==
    \A a \in AdapterStages : pc \in later(a.stage) => raw_output(a.file).exists

\* C23: across runs in one working directory, httpx is given only hosts
\* that the resolution stage of the same run produced: when it is invoked,
\* resolved.json has been written in this run and every host of the list
\* httpx receives is the host of one of its records; a live.assets left by
\* an earlier run is not probed by a run whose dnsx wrote no file.
C23_ProbeOnlyThisRunsHosts ==
    probe.invoked =>
        /\ resolved_json.exists
        /\ \A h \in Range(probe.hosts) :
               \E line \in Range(resolved_json.lines) :
                   line.json = "object" /\ h \in Range(line.host)

\* the list of resolved hosts that resolve_domains wrote in this run: httpx,
\* when invoked, was given it, and web_discovery changes it in no other case
resolved_hosts == read_file_lines(IF probe.invoked THEN probe.hosts ELSE live_assets.lines)

\* C24: when generate_summary runs, the list of resolved hosts that
\* resolve_domains wrote from resolved.json still exists, and the count of
\* resolved hosts generate_summary prints is the number of hosts in that
\* list, whether web_discovery invoked httpx or not.
C24_ResolvedListSummarised ==
    (dnsx = "ran" /\ resolved_json.exists) =>
        /\ pc = "summary" => live_assets.exists
        /\ pc \in {"cleanup", "done"} => summary.resolved_count = Len(resolved_hosts)

\* C25: web_discovery invokes httpx only when live.assets exists and lists
\* a host, and then gives it that very list; when live.assets is absent or
\* lists no host, httpx is not invoked, web_intelligence.csv is not
\* written, and the report that follows records a web endpoint for no host.
\* No other stage invokes httpx.
C25_ProbeOnlyWithLiveHosts ==
    [][/\ (probe'.invoked /\ ~probe.invoked) => pc = "web"
       /\ (pc = "web" /\ pc' = "summary") =>
              LET listed == live_assets.exists /\ read_file_lines(live_assets.lines) # <<>>
              IN  /\ probe'.invoked => (listed /\ probe'.hosts = live_assets.lines)
                  /\ ~listed => (~probe'.invoked /\ web_csv' = web_csv)
       /\ (pc = "summary" /\ pc' = "cleanup" /\ ~probe.invoked) =>
              \A k \in 1..Len(results') :
                  results'[k].web_urls = <<>> /\ results'[k].status # "Web"]_vars

\* a run that has returned after httpx was given the one host dnsx had
\* resolved and found a web endpoint on it, which the report records
C25_ProbedTheLiveHost ==
    /\ pc = "done"
    /\ probe.invoked /\ Len(probe.hosts) = 1
    /\ \E line \in Range(resolved_json.lines) : line.host = probe.hosts
    /\ \E k \in 1..Len(results) :
          results[k].domain = probe.hosts[1] /\ results[k].web_urls # <<>>
====
